---- MODULE Spec2Model ----
(***************************************************************************)
(* Model of src/app.py: the enrollment dashboard.                          *)
(*                                                                         *)
(*   load_data_with_duckdb  memoized read of the parquet table             *)
(*   transform_data         flat rows -> per-student profiles             *)
(*   get_students_by_class  class projection                               *)
(*   display_grade_records  grade payload decoder / renderer               *)
(*   main                   one script run (load, aggregate, render)       *)
(*                                                                         *)
(* Text is a sequence of one-character strings, so that str(), strip(),    *)
(* date parsing and JSON decoding are computed, not assumed.  A cell of    *)
(* the table is either null (Python None) or a text.                       *)
(***************************************************************************)
EXTENDS Integers, Sequences, FiniteSets, TLC

VARIABLES
    source,     \* the parquet file: [ok |-> BOOLEAN, rows |-> table]
    cache,      \* st.cache_data memo of load_data_with_duckdb
    df,         \* the DataFrame held by the last operation
    students,   \* the mapping returned by transform_data (insertion ordered)
    selected,   \* the widget selection / argument of the last operation
    filtered,   \* the mapping returned by get_students_by_class
    screen,     \* what the last operation wrote to the page, in order
    raised,     \* the exception that ended the last operation, or "none"
    op,         \* the last operation
    calls,      \* the functions the last operation called, in order
    load        \* how the last run of main got its DataFrame

vars ==
    <<source, cache, df, students, selected, filtered, screen, raised, op,
      calls, load>>

----------------------------------------------------------------------------
(* Bounds of the model. *)

\* Longest table given to transform_data.
MaxRows == 2

\* Longest table the parquet file holds.
MaxFileRows == 2

\* Longest generated grades payload.
MaxPayloadLen == 3

----------------------------------------------------------------------------
(* Cells and text. *)

None == [null |-> TRUE, s |-> <<>>]

Text(t) == [null |-> FALSE, s |-> t]

Whitespace == {" "}

\* str(x): None prints as the four letters "None", a text is itself.
str(x) == IF x.null THEN <<"N", "o", "n", "e">> ELSE x.s

RECURSIVE lstrip(_)
lstrip(t) ==
    IF t # <<>> /\ Head(t) \in Whitespace THEN lstrip(Tail(t)) ELSE t

RECURSIVE rstrip(_)
rstrip(t) ==
    IF t # <<>> /\ t[Len(t)] \in Whitespace
    THEN rstrip(SubSeq(t, 1, Len(t) - 1))
    ELSE t

\* str.strip()
strip(t) == rstrip(lstrip(t))

\* Truth value of a cell: None and "" are falsy.
Truthy(x) == ~x.null /\ x.s # <<>>

----------------------------------------------------------------------------
(* pd.to_datetime(x, dayfirst=True, errors="coerce") and the sort key.     *)

DigitOf(c) ==
    CASE c = "0" -> 0 [] c = "1" -> 1 [] c = "2" -> 2 [] c = "3" -> 3
      [] c = "4" -> 4 [] c = "5" -> 5 [] c = "6" -> 6 [] c = "7" -> 7
      [] c = "8" -> 8 [] c = "9" -> 9 [] OTHER -> -1

IsDigit(c) == DigitOf(c) >= 0

NaT == [k |-> "NaT", v |-> 0]

NoTimestamp == [k |-> "None", v |-> 0]

Timestamp(v) == [k |-> "ts", v |-> v]

\* pd.Timestamp.min (1677-09-21), below every date of the table.
TimestampMin == Timestamp(16770921)

DateShaped(t) ==
    /\ Len(t) = 10
    /\ t[3] = "/" /\ t[6] = "/"
    /\ \A i \in {1, 2, 4, 5, 7, 8, 9, 10} : IsDigit(t[i])

\* dd/mm/yyyy, day first; when the second number cannot be a month and the
\* first can, the two are read the other way round (pandas falls back).
ParseDate(t) ==
    IF ~DateShaped(t) THEN NaT
    ELSE LET a == DigitOf(t[1]) * 10 + DigitOf(t[2])
             b == DigitOf(t[4]) * 10 + DigitOf(t[5])
             y == DigitOf(t[7]) * 1000 + DigitOf(t[8]) * 100
                    + DigitOf(t[9]) * 10 + DigitOf(t[10])
             day == IF b \in 1..12 THEN a ELSE b
             month == IF b \in 1..12 THEN b ELSE a
         IN IF month \in 1..12 /\ day \in 1..31 /\ y \in 1678..2261
            THEN Timestamp(y * 10000 + month * 100 + day)
            ELSE NaT

to_datetime(x) == IF x.null THEN NoTimestamp ELSE ParseDate(x.s)

\* x.get("parsed_start") or pd.Timestamp.min : only None is falsy, NaT is not.
SortKey(e) ==
    IF e.parsed_start.k = "None" THEN TimestampMin ELSE e.parsed_start

\* a < b on Timestamp / NaT: every comparison with NaT is False.
Lt(a, b) == a.k = "ts" /\ b.k = "ts" /\ a.v < b.v

----------------------------------------------------------------------------
(* list.sort(key=..., reverse=True) for lists shorter than 64: one run,    *)
(* count_run then binary insertion, between two reversals.                 *)

RECURSIVE Reverse(_)
Reverse(s) == IF s = <<>> THEN <<>> ELSE Append(Reverse(Tail(s)), Head(s))

\* Length of the run that starts the list; desc: strictly descending run.
RECURSIVE RunLen(_, _, _)
RunLen(s, n, desc) ==
    IF n >= Len(s) THEN n
    ELSE IF Lt(SortKey(s[n + 1]), SortKey(s[n])) = desc
    THEN RunLen(s, n + 1, desc)
    ELSE n

RunFrom(s, desc) == [n |-> RunLen(s, 2, desc), descending |-> desc]

count_run(s) ==
    IF Len(s) < 2 THEN [n |-> Len(s), descending |-> FALSE]
    ELSE RunFrom(s, Lt(SortKey(s[2]), SortKey(s[1])))

\* Insertion point of pivot in s[l+1 .. r] (0-based l, r as in binarysort).
RECURSIVE BinSearch(_, _, _, _)
BinSearch(s, pivot, l, r) ==
    IF l >= r THEN l
    ELSE IF Lt(SortKey(pivot), SortKey(s[l + ((r - l) \div 2) + 1]))
    THEN BinSearch(s, pivot, l, l + ((r - l) \div 2))
    ELSE BinSearch(s, pivot, l + ((r - l) \div 2) + 1, r)

\* s with s[start+1] moved to position l+1.
MoveTo(s, start, l) ==
    SubSeq(s, 1, l) \o <<s[start + 1]>> \o SubSeq(s, l + 1, start)
        \o SubSeq(s, start + 2, Len(s))

\* s[1..start] is sorted; insert s[start+1], s[start+2], ... one by one.
RECURSIVE binarysort(_, _)
binarysort(s, start) ==
    IF start >= Len(s) THEN s
    ELSE binarysort(MoveTo(s, start, BinSearch(s, s[start + 1], 0, start)),
                    start + 1)

\* A descending run is reversed in place, the rest is inserted into it.
SortRun(s, run) ==
    binarysort((IF run.descending
                THEN Reverse(SubSeq(s, 1, run.n)) ELSE SubSeq(s, 1, run.n))
               \o SubSeq(s, run.n + 1, Len(s)), run.n)

listsort(s) == IF Len(s) < 2 THEN s ELSE SortRun(s, count_run(s))

sort_reverse(s) == Reverse(listsort(Reverse(s)))

----------------------------------------------------------------------------
(* json.loads on a text: objects, arrays, strings without escapes,         *)
(* non-negative integers, null, true, false; blanks between tokens.        *)

JValue(t, items, s, n) == [t |-> t, items |-> items, s |-> s, n |-> n]

JNull == JValue("null", <<>>, <<>>, 0)

JBool(b) == JValue("bool", <<>>, <<>>, IF b THEN 1 ELSE 0)

JInt(n) == JValue("int", <<>>, <<>>, n)

JStr(s) == JValue("str", <<>>, s, 0)

JList(items) == JValue("list", items, <<>>, 0)

\* items: a sequence of <<key, value>> pairs in insertion order.
JDict(items) == JValue("dict", items, <<>>, 0)

Parsed(val, rest) == [ok |-> TRUE, val |-> val, rest |-> rest]

ParseFail == [ok |-> FALSE, val |-> JNull, rest |-> <<>>]

StartsWith(t, prefix) ==
    Len(t) >= Len(prefix) /\ SubSeq(t, 1, Len(prefix)) = prefix

Drop(t, n) == SubSeq(t, n + 1, Len(t))

\* dict[key] = val : a repeated key keeps its place and takes the new value.
DictPut(items, key, val) ==
    IF \E i \in 1..Len(items) : items[i][1] = key
    THEN [i \in 1..Len(items) |->
            IF items[i][1] = key THEN <<key, val>> ELSE items[i]]
    ELSE Append(items, <<key, val>>)

\* The text after an opening quote, up to the closing one.
RECURSIVE ScanString(_, _)
ScanString(t, acc) ==
    IF t = <<>> THEN ParseFail
    ELSE IF Head(t) = "\"" THEN Parsed(JStr(acc), Tail(t))
    ELSE ScanString(Tail(t), Append(acc, Head(t)))

RECURSIVE ScanDigits(_, _)
ScanDigits(t, n) ==
    IF t # <<>> /\ IsDigit(Head(t))
    THEN ScanDigits(Tail(t), n * 10 + DigitOf(Head(t)))
    ELSE Parsed(JInt(n), t)

RECURSIVE ScanValue(_)
RECURSIVE ScanArray(_, _)
RECURSIVE ArrayAfterValue(_, _)
RECURSIVE ArrayNext(_, _)
RECURSIVE ScanObject(_, _)
RECURSIVE ObjectAfterKey(_, _)
RECURSIVE ObjectColon(_, _, _)
RECURSIVE ObjectAfterValue(_, _, _)
RECURSIVE ObjectNext(_, _)

\* After "[" and blanks: the empty array or its first element.
ArrayStart(u) ==
    IF u # <<>> /\ Head(u) = "]" THEN Parsed(JList(<<>>), Tail(u))
    ELSE ScanArray(u, <<>>)

\* After "{" and blanks: the empty object or its first key.
ObjectStart(u) ==
    IF u # <<>> /\ Head(u) = "}" THEN Parsed(JDict(<<>>), Tail(u))
    ELSE ScanObject(u, <<>>)

\* scan_once: the value that starts at the head of t.
ScanValue(t) ==
    IF t = <<>> THEN ParseFail
    ELSE IF Head(t) = "\"" THEN ScanString(Tail(t), <<>>)
    ELSE IF Head(t) = "[" THEN ArrayStart(lstrip(Tail(t)))
    ELSE IF Head(t) = "{" THEN ObjectStart(lstrip(Tail(t)))
    ELSE IF StartsWith(t, <<"n", "u", "l", "l">>) THEN Parsed(JNull, Drop(t, 4))
    ELSE IF StartsWith(t, <<"t", "r", "u", "e">>) THEN Parsed(JBool(TRUE), Drop(t, 4))
    ELSE IF StartsWith(t, <<"f", "a", "l", "s", "e">>)
        THEN Parsed(JBool(FALSE), Drop(t, 5))
    ELSE IF Head(t) = "0" THEN Parsed(JInt(0), Tail(t))
    ELSE IF IsDigit(Head(t)) THEN ScanDigits(t, 0)
    ELSE ParseFail

\* JSONArray: t is at an element; acc holds the elements read so far.
ScanArray(t, acc) == ArrayAfterValue(ScanValue(t), acc)

ArrayAfterValue(v, acc) ==
    IF ~v.ok THEN ParseFail
    ELSE ArrayNext(lstrip(v.rest), Append(acc, v.val))

\* After an element and blanks: "]" ends the array, "," asks for another.
ArrayNext(u, items) ==
    IF u = <<>> THEN ParseFail
    ELSE IF Head(u) = "]" THEN Parsed(JList(items), Tail(u))
    ELSE IF Head(u) = "," THEN ScanArray(lstrip(Tail(u)), items)
    ELSE ParseFail

\* JSONObject: t is at a key; acc holds the members read so far.
ScanObject(t, acc) ==
    IF t = <<>> \/ Head(t) # "\"" THEN ParseFail
    ELSE ObjectAfterKey(ScanString(Tail(t), <<>>), acc)

ObjectAfterKey(key, acc) ==
    IF ~key.ok THEN ParseFail
    ELSE ObjectColon(lstrip(key.rest), key.val.s, acc)

ObjectColon(u, key, acc) ==
    IF u = <<>> \/ Head(u) # ":" THEN ParseFail
    ELSE ObjectAfterValue(ScanValue(lstrip(Tail(u))), key, acc)

ObjectAfterValue(v, key, acc) ==
    IF ~v.ok THEN ParseFail
    ELSE ObjectNext(lstrip(v.rest), DictPut(acc, key, v.val))

\* After a member and blanks: "}" ends the object, "," asks for another.
ObjectNext(w, items) ==
    IF w = <<>> THEN ParseFail
    ELSE IF Head(w) = "}" THEN Parsed(JDict(items), Tail(w))
    ELSE IF Head(w) = "," THEN ScanObject(lstrip(Tail(w)), items)
    ELSE ParseFail

\* Nothing but blanks may follow the value.
WholeText(v) == IF v.ok /\ lstrip(v.rest) = <<>> THEN v ELSE ParseFail

\* json.loads(text)
json_loads(t) == WholeText(ScanValue(lstrip(t)))

\* Truth value of a decoded value.
JTruthy(v) ==
    CASE v.t = "null" -> FALSE
      [] v.t = "bool" -> v.n = 1
      [] v.t = "int" -> v.n # 0
      [] v.t = "str" -> v.s # <<>>
      [] OTHER -> v.items # <<>>

\* dict.get(key, default)
DictGet(d, key, default) ==
    IF \E i \in 1..Len(d.items) : d.items[i][1] = key
    THEN d.items[CHOOSE i \in 1..Len(d.items) : d.items[i][1] = key][2]
    ELSE default

\* What "for record in grade_records" iterates over (iterable values only).
IterOf(v) ==
    CASE v.t = "list" -> v.items
      [] v.t = "dict" -> [i \in 1..Len(v.items) |-> JStr(v.items[i][1])]
      [] OTHER -> [i \in 1..Len(v.s) |-> JStr(<<v.s[i]>>)]

----------------------------------------------------------------------------
(* display_grade_records: what it writes, and the exception it ends with.  *)

Out(w, arg) == [w |-> w, arg |-> arg]

Shown(out, exc) == [out |-> out, exc |-> exc]

GradeTypeKey == <<"g", "r", "a", "d", "e", "_", "t", "y", "p", "e">>

ComponentsKey == <<"c", "o", "m", "p", "o", "n", "e", "n", "t", "s">>

RECURSIVE ShowRecords(_, _)

\* Lines 181-186: the components of one record, then the next record.
ShowComponents(components, records, out) ==
    IF ~JTruthy(components)
    THEN ShowRecords(records, Append(out, Out("no_components", JNull)))
    ELSE IF components.t # "dict" THEN Shown(out, "AttributeError")
    ELSE ShowRecords(records, Append(out, Out("table", components)))

\* Lines 178-186: the loop over the grade records.
ShowRecords(records, out) ==
    IF records = <<>> THEN Shown(out, "none")
    ELSE IF Head(records).t # "dict" THEN Shown(out, "AttributeError")
    ELSE ShowComponents(
            DictGet(Head(records), ComponentsKey, JDict(<<>>)),
            Tail(records),
            Append(out, Out("grade_header",
                            DictGet(Head(records), GradeTypeKey, JNull))))

\* Lines 169-186 without the try/except around json.loads.
ShowDecoded_uncaught(decoded, text) ==
    IF ~decoded.ok THEN Shown(<<>>, "JSONDecodeError")
    ELSE IF ~JTruthy(decoded.val)
    THEN Shown(<<Out("no_grade_records", JNull)>>, "none")
    ELSE IF decoded.val.t \in {"int", "bool"} THEN Shown(<<>>, "TypeError")
    ELSE ShowRecords(IterOf(decoded.val), <<>>)

\* Lines 171-186: after json.loads.
ShowDecoded(decoded, text) ==
    IF ~decoded.ok THEN Shown(<<Out("decode_error", JStr(text))>>, "none")
    ELSE IF ~JTruthy(decoded.val)
    THEN Shown(<<Out("no_grade_records", JNull)>>, "none")
    ELSE IF decoded.val.t \in {"int", "bool"} THEN Shown(<<>>, "TypeError")
    ELSE ShowRecords(IterOf(decoded.val), <<>>)

\* Lines 166-168: the message is written, then the bare name "returna" is
\* evaluated, which raises NameError.
display_grade_records(grades_json_str) ==
    IF ~Truthy(grades_json_str)
    THEN Shown(<<Out("no_grade_data", JNull)>>, "NameError")
    ELSE ShowDecoded(json_loads(grades_json_str.s), grades_json_str.s)

----------------------------------------------------------------------------
(* transform_data.  A row is a record of cells; the mapping it returns is  *)
(* the sequence of profiles in insertion order (a dict keeps that order).  *)

\* Line 88 without .strip()
student_name_unstripped(row) == str(row.Ten)

\* Line 88: the key a row is filed under.
student_name(row) == strip(str(row.Ten))

\* Lines 106-111.
enrollment_key(row) ==
    <<str(row.class_id), str(row.TenLop), str(row.start_date), str(row.end_date)>>

\* Lines 97-104.
new_student(name, row) ==
    [HoTen |-> name,
     DienThoai |-> strip(str(row.DienThoai)),
     NgaySinh |-> strip(str(row.NgaySinh)),
     GhiChu |-> strip(str(row.GhiChu)),
     LichSuHoc |-> <<>>,
     enrollment_keys |-> {}]

\* Lines 116-131.
enrollment(row) ==
    [STT |-> row.STT,
     KhoaHoc |-> str(row.class_id),
     Lop |-> row.TenLop,
     TuNgay |-> row.start_date,
     DenNgay |-> row.end_date,
     DaThanhToan |-> strip(str(row.DaThanhToan)),
     grades |-> row.grades,
     parsed_start |-> to_datetime(row.start_date)]

\* Position of the profile filed under name, 0 when there is none.
IndexOf(m, name) ==
    IF \E i \in 1..Len(m) : m[i].HoTen = name
    THEN CHOOSE i \in 1..Len(m) : m[i].HoTen = name
    ELSE 0

HasStudent(m, name) == IndexOf(m, name) # 0

\* Lines 96-104: a name seen for the first time gets a profile.
register(m, name, row) ==
    IF HasStudent(m, name) THEN m ELSE Append(m, new_student(name, row))

\* Lines 112-114 and 132: a key seen before adds nothing.
file_enrollment(m, i, key, e) ==
    IF key \in m[i].enrollment_keys THEN m
    ELSE [m EXCEPT ![i].enrollment_keys = @ \cup {key},
                   ![i].LichSuHoc = Append(@, e)]

add_enrollment(m, name, row) ==
    file_enrollment(m, IndexOf(m, name), enrollment_key(row), enrollment(row))

\* Lines 87-132: one turn of the loop over the rows.
add_row(m, row) ==
    IF student_name(row) = <<>> THEN m
    ELSE add_enrollment(register(m, student_name(row), row),
                        student_name(row), row)

RECURSIVE add_rows(_, _)
add_rows(m, rows) ==
    IF rows = <<>> THEN m ELSE add_rows(add_row(m, Head(rows)), Tail(rows))

\* Line 136: an entry without its working field.
pop_parsed_start(e) ==
    [STT |-> e.STT, KhoaHoc |-> e.KhoaHoc, Lop |-> e.Lop, TuNgay |-> e.TuNgay,
     DenNgay |-> e.DenNgay, DaThanhToan |-> e.DaThanhToan, grades |-> e.grades]

\* Lines 135-137: the profile without its working fields.
public_profile(student, history) ==
    [HoTen |-> student.HoTen,
     DienThoai |-> student.DienThoai,
     NgaySinh |-> student.NgaySinh,
     GhiChu |-> student.GhiChu,
     LichSuHoc |-> [i \in 1..Len(history) |-> pop_parsed_start(history[i])]]

\* Lines 133-137: sort, then drop the working fields.
finalize(student) == public_profile(student, sort_reverse(student.LichSuHoc))

finalize_all(m) == [i \in 1..Len(m) |-> finalize(m[i])]

transform_data(rows) == finalize_all(add_rows(<<>>, rows))

----------------------------------------------------------------------------
(* get_students_by_class *)

\* Line 148 with the entries of the class put oldest first.
RECURSIVE filtered_enrollments_resorted(_, _)
filtered_enrollments_resorted(enrollments, selected_class) ==
    IF enrollments = <<>> THEN <<>>
    ELSE IF Head(enrollments).Lop = selected_class
    THEN filtered_enrollments_resorted(Tail(enrollments), selected_class)
            \o <<Head(enrollments)>>
    ELSE filtered_enrollments_resorted(Tail(enrollments), selected_class)

\* Line 148: the entries of the class, in the order they are in.
RECURSIVE filtered_enrollments(_, _)
filtered_enrollments(enrollments, selected_class) ==
    IF enrollments = <<>> THEN <<>>
    ELSE IF Head(enrollments).Lop = selected_class
    THEN <<Head(enrollments)>>
            \o filtered_enrollments(Tail(enrollments), selected_class)
    ELSE filtered_enrollments(Tail(enrollments), selected_class)

\* Lines 150-156.
student_copy(student_data, enrollments) ==
    [HoTen |-> student_data.HoTen,
     DienThoai |-> student_data.DienThoai,
     NgaySinh |-> student_data.NgaySinh,
     GhiChu |-> student_data.GhiChu,
     LichSuHoc |-> enrollments]

\* Lines 149-157: a student with no entry of the class is left out.
keep_student(student_data, kept, rest) ==
    IF kept # <<>> THEN <<student_copy(student_data, kept)>> \o rest ELSE rest

\* Lines 145-158: the loop over students.items().
RECURSIVE get_students_by_class(_, _)
get_students_by_class(m, selected_class) ==
    IF m = <<>> THEN <<>>
    ELSE keep_student(Head(m),
                      filtered_enrollments(Head(m).LichSuHoc, selected_class),
                      get_students_by_class(Tail(m), selected_class))

----------------------------------------------------------------------------
(* load_data_with_duckdb under @st.cache_data: the memo is keyed by the    *)
(* query text alone, and main always passes the same query.                *)

EmptyCache == [hit |-> FALSE, df |-> <<>>, error |-> FALSE]

Unreadable == [ok |-> FALSE, rows |-> <<>>]

File(rows) == [ok |-> TRUE, rows |-> rows]

\* Lines 62-68, the body: read the file, or report and return no rows.
read_source(src) ==
    IF src.ok THEN [df |-> src.rows, error |-> FALSE]
    ELSE [df |-> <<>>, error |-> TRUE]

stored(r) ==
    [df |-> r.df, error |-> r.error,
     memo |-> [hit |-> TRUE, df |-> r.df, error |-> r.error],
     how |-> IF r.error THEN "failed" ELSE "read"]

\* Lines 55-56: a stored result is returned (and its st.error replayed)
\* without running the body; otherwise the body runs and its result is stored.
load_data_with_duckdb(memo, src) ==
    IF memo.hit
    THEN [df |-> memo.df, error |-> memo.error, memo |-> memo, how |-> "hit"]
    ELSE stored(read_source(src))

\* Line 193 testing "df is None", which a DataFrame never is.
is_none(rows) == FALSE

\* Line 193: df.is_empty()
is_empty(rows) == Len(rows) = 0

----------------------------------------------------------------------------
(* The two views of main. *)

LowerChar(c) ==
    CASE c = "A" -> "a" [] c = "N" -> "n" [] c = "H" -> "h" [] c = "P" -> "p"
      [] c = "L" -> "l" [] c = "M" -> "m" [] c = "Q" -> "q" [] OTHER -> c

\* str.lower()
lower(t) == [i \in 1..Len(t) |-> LowerChar(t[i])]

\* sub in t
Contains(t, sub) ==
    \E i \in 1..(Len(t) + 1) :
        i + Len(sub) - 1 <= Len(t) /\ SubSeq(t, i, i + Len(sub) - 1) = sub

\* Lines 205 and 246: the search box keeps the names that contain the term.
Matches(name, search_term) ==
    search_term = <<>> \/ Contains(lower(name), lower(search_term))

\* Line 228: the one status shown as paid.
PaidStatus == <<"H", "P">>

RECURSIVE show_enrollments(_, _)

\* Lines 233-235: the grades of one enrollment, then the next enrollment.
show_grades(g, e, rest, out) ==
    IF g.exc # "none" THEN Shown(out \o g.out, g.exc)
    ELSE show_enrollments(rest, Append(out \o g.out, Out("rule", e.STT)))

\* Lines 222-235 and 254-267: the loop over the enrollments of one student;
\* an exception of display_grade_records ends the run where it is raised.
show_enrollments(enrollments, out) ==
    IF enrollments = <<>> THEN Shown(out, "none")
    ELSE show_grades(
            display_grade_records(Head(enrollments).grades),
            Head(enrollments),
            Tail(enrollments),
            out \o <<Out("enrollment", Head(enrollments)),
                     Out(IF Head(enrollments).DaThanhToan = PaidStatus
                         THEN "paid" ELSE "unpaid",
                         Head(enrollments).DaThanhToan)>>)

\* Lines 203-206: the names offered by the student selectbox.
student_options(m, search_term) ==
    {m[i].HoTen : i \in {j \in 1..Len(m) : Matches(m[j].HoTen, search_term)}}

\* Lines 208-237 for the profile of the selected student.
show_student(student_data, out) ==
    IF student_data.LichSuHoc = <<>>
    THEN Shown(Append(out, Out("no_enrollments", <<>>)), "none")
    ELSE show_enrollments(student_data.LichSuHoc, out)

student_info(student_data) ==
    Out("info", <<student_data.DienThoai, student_data.NgaySinh,
                  student_data.GhiChu>>)

\* Lines 207-237.
student_view(m, selected_student) ==
    IF selected_student.null \/ ~HasStudent(m, selected_student.s)
    THEN Shown(<<Out("student", selected_student), Out("info", <<>>),
                 Out("no_enrollments", <<>>)>>, "none")
    ELSE show_student(m[IndexOf(m, selected_student.s)],
                      <<Out("student", selected_student),
                        student_info(m[IndexOf(m, selected_student.s)])>>)

\* Line 241: the class labels of the table, nulls dropped.
class_options(rows) ==
    {rows[i].TenLop : i \in {j \in 1..Len(rows) : ~rows[j].TenLop.null}}

\* Line 246: the students of the class whose name contains the term.
RECURSIVE search_students(_, _)
search_students(m, search_student) ==
    IF m = <<>> THEN <<>>
    ELSE IF Matches(Head(m).HoTen, search_student)
    THEN <<Head(m)>> \o search_students(Tail(m), search_student)
    ELSE search_students(Tail(m), search_student)

RECURSIVE show_students(_, _)

next_student(r, rest) ==
    IF r.exc # "none" THEN r ELSE show_students(rest, r.out)

\* Lines 250-267: the loop over the students of the class.
show_students(m, out) ==
    IF m = <<>> THEN Shown(out, "none")
    ELSE next_student(
            show_enrollments(Head(m).LichSuHoc,
                             out \o <<Out("student", Text(Head(m).HoTen)),
                                      student_info(Head(m))>>),
            Tail(m))

\* Lines 249-269.
show_class(listed, out) ==
    IF listed = <<>> THEN Shown(Append(out, Out("no_students", <<>>)), "none")
    ELSE show_students(listed, out)

Viewed(r, listed) == [out |-> r.out, exc |-> r.exc, filtered |-> listed]

class_listing(listed, selected_class) ==
    Viewed(show_class(listed, <<Out("class", selected_class)>>), listed)

\* Lines 244-269.
class_view(m, selected_class, search_student) ==
    class_listing(
        search_students(get_students_by_class(m, selected_class), search_student),
        selected_class)

----------------------------------------------------------------------------
(* main: one run of the script. *)

Views == {"student", "class"}

\* What the widgets can return in this run: the radio, the search box and
\* the selectbox (None when it has nothing to offer).
widgets(rows, m, view, search, pick) ==
    LET options == IF view = "student"
                   THEN {Text(n) : n \in student_options(m, search)}
                   ELSE class_options(rows)
    IN IF options = {} THEN pick = None ELSE pick \in options

\* Lines 198-269: the page for the chosen view.
view_of(m, view, search, pick) ==
    IF view = "student" THEN Viewed(student_view(m, pick), <<>>)
    ELSE class_view(m, pick, search)

LoadErrors(ld) == IF ld.error THEN <<Out("load_error", <<>>)>> ELSE <<>>

\* Lines 195-269: the run after a DataFrame with rows was loaded.
rendered(ld, m, v, view, search, pick) ==
    [memo |-> ld.memo, how |-> ld.how, df |-> ld.df,
     students |-> m, filtered |-> v.filtered,
     out |-> LoadErrors(ld) \o v.out, exc |-> v.exc,
     valid |-> widgets(ld.df, m, view, search, pick),
     calls |-> IF view = "student"
               THEN <<"load_data_with_duckdb", "transform_data">>
               ELSE <<"load_data_with_duckdb", "transform_data",
                      "get_students_by_class">>]

aggregated(ld, m, view, search, pick) ==
    rendered(ld, m, view_of(m, view, search, pick), view, search, pick)

\* Lines 193-194: st.stop() ends the run.
stopped(ld) ==
    [memo |-> ld.memo, how |-> ld.how, df |-> ld.df,
     students |-> <<>>, filtered |-> <<>>, out |-> LoadErrors(ld),
     exc |-> "none", valid |-> TRUE,
     calls |-> <<"load_data_with_duckdb", "stop">>]

\* Lines 193-269.
loaded(ld, view, search, pick) ==
    IF is_empty(ld.df) THEN stopped(ld)
    ELSE aggregated(ld, transform_data(ld.df), view, search, pick)

\* Lines 188-269.
main(memo, src, view, search, pick) ==
    loaded(load_data_with_duckdb(memo, src), view, search, pick)

----------------------------------------------------------------------------
(* The tables, payloads and widget answers. *)

Cell_A == Text(<<"A">>)
Cell_A_padded == Text(<<" ", "A", " ">>)
Cell_a == Text(<<"a">>)
Cell_empty == Text(<<>>)
Cell_blank == Text(<<" ">>)
Cell_None_text == Text(<<"N", "o", "n", "e">>)
Cell_L1 == Text(<<"L", "1">>)
Cell_L2 == Text(<<"L", "2">>)
Cell_L3 == Text(<<"L", "3">>)
Cell_c1 == Text(<<"c", "1">>)
Cell_end == Text(<<"3", "1", "/", "1", "2", "/", "2", "0", "2", "4">>)

\* 1 June 2024 and 5 January 2024, day first; then two texts that are no date.
Date_June == Text(<<"0", "1", "/", "0", "6", "/", "2", "0", "2", "4">>)
Date_January == Text(<<"0", "5", "/", "0", "1", "/", "2", "0", "2", "4">>)
Date_bad == Text(<<"x">>)

Payload_good == Text(<<"[", "{", "\"", "g", "r", "a", "d", "e", "_", "t", "y", "p", "e", "\"", ":", "\"", "M", "\"", "}", "]">>)
Payload_full == Text(<<"[", "{", "\"", "g", "r", "a", "d", "e", "_", "t", "y", "p", "e", "\"", ":", "\"", "M", "\"", ",", "\"", "c", "o", "m", "p", "o", "n", "e", "n", "t", "s", "\"", ":", "{", "\"", "Q", "\"", ":", "\"", "8", "\"", "}", "}", "]">>)
Payload_bad == Text(<<"n", "o", "t", " ", "j", "s", "o", "n">>)
Payload_cut == Text(<<"[", "{", "\"", "g", "r", "a", "d", "e", "_", "t", "y", "p", "e", "\"">>)
Payload_list == Text(<<"[", "]">>)
Payload_number == Text(<<"5">>)
Payload_numbers == Text(<<"[", "1", "]">>)

Names == {None, Cell_empty, Cell_blank, Cell_A, Cell_A_padded, Cell_a}

\* (class_id, class label, start date, end date)
Enrollments ==
    {<<Cell_c1, Cell_L1, Date_June, Cell_end>>,
     <<Cell_c1, Cell_L1, Date_January, Cell_end>>,
     <<Cell_c1, Cell_L2, Date_bad, Cell_end>>,
     <<Cell_c1, None, None, Cell_end>>,
     <<Cell_c1, Cell_None_text, None, Cell_end>>}

\* (phone, birth date, note, payment status, grades payload)
MkRow(stt, ten, e, d) ==
    [STT |-> stt, Ten |-> ten,
     DienThoai |-> d[1], NgaySinh |-> d[2], GhiChu |-> d[3],
     class_id |-> e[1], TenLop |-> e[2], start_date |-> e[3], end_date |-> e[4],
     DaThanhToan |-> d[4], grades |-> d[5]]

Details_paid == <<Text(<<"1">>), Text(<<"2">>), Cell_empty, Text(PaidStatus), Payload_good>>
Details_unpaid == <<Text(<<" ", "3", " ">>), None, Text(<<"n">>), Text(<<" ", "x">>), Payload_bad>>
Details_ungraded == <<Text(<<"1">>), Text(<<"2">>), Cell_empty, Text(PaidStatus), None>>

\* Every name with one enrollment, one student with every enrollment, and
\* an enrollment without a grades payload.
RowShapes ==
    {<<n, e, d>> : n \in Names,
                   e \in {<<Cell_c1, Cell_L1, Date_June, Cell_end>>},
                   d \in {Details_paid, Details_unpaid}}
    \cup {<<n, e, d>> : n \in {Cell_A}, e \in Enrollments,
                        d \in {Details_paid, Details_unpaid}}
    \cup {<<Cell_A, <<Cell_c1, Cell_L1, Date_January, Cell_end>>, Details_ungraded>>}

\* The column STT numbers the rows of the table.
TablesOver(shapes, n) ==
    {[i \in 1..Len(t) |-> MkRow(i, t[i][1], t[i][2], t[i][3])] :
        t \in UNION {[1..k -> shapes] : k \in 0..n}}

AggTables == TablesOver(RowShapes, MaxRows)

FileRowShapes ==
    {<<Cell_A, <<Cell_c1, Cell_L1, Date_June, Cell_end>>, Details_paid>>,
     <<Cell_a, <<Cell_c1, Cell_L2, Date_bad, Cell_end>>, Details_unpaid>>,
     <<Cell_blank, <<Cell_c1, Cell_L1, Date_January, Cell_end>>, Details_ungraded>>}

FileTables == TablesOver(FileRowShapes, MaxFileRows)

ClassNames == {None, Cell_None_text, Cell_L1, Cell_L2, Cell_L3}

PayloadAlphabet == {" ", "[", "]", "{", "}", "0", "x"}

\* null, every text of up to MaxPayloadLen letters, and the longer samples.
Payloads ==
    {None, Payload_good, Payload_full, Payload_bad, Payload_cut, Payload_number,
     Payload_numbers}
    \cup {Text(t) : t \in UNION {[1..k -> PayloadAlphabet] : k \in 0..MaxPayloadLen}}

SearchTerms == {<<>>, <<"a">>}

Picks == {None, Cell_A, Cell_a, Cell_None_text, Cell_L1, Cell_L2}

----------------------------------------------------------------------------
(* The state machine. *)

\* A fresh server process: nothing memoized, nothing on the page.
Fresh(src, rows) ==
    /\ source = src
    /\ cache = EmptyCache
    /\ df = rows
    /\ students = <<>>
    /\ selected = None
    /\ filtered = <<>>
    /\ screen = <<>>
    /\ raised = "none"
    /\ op = "init"
    /\ calls = <<>>
    /\ load = "none"

\* transform_data(df)
Transform ==
    /\ students' = transform_data(df)
    /\ selected' = None
    /\ filtered' = <<>>
    /\ screen' = <<>>
    /\ raised' = "none"
    /\ op' = "transform_data"
    /\ calls' = <<"transform_data">>
    /\ UNCHANGED <<source, cache, df, load>>

\* get_students_by_class(transform_data(df), c)
ByClass(c) ==
    /\ students' = transform_data(df)
    /\ selected' = c
    /\ filtered' = get_students_by_class(students', c)
    /\ screen' = <<>>
    /\ raised' = "none"
    /\ op' = "get_students_by_class"
    /\ calls' = <<"transform_data", "get_students_by_class">>
    /\ UNCHANGED <<source, cache, df, load>>

Displayed(r) ==
    /\ screen' = r.out
    /\ raised' = r.exc
    /\ op' = "display_grade_records"
    /\ calls' = <<"display_grade_records">>
    /\ UNCHANGED <<source, cache, df, load, students, filtered, selected>>

\* display_grade_records(selected)
DisplayGrades == op = "init" /\ Displayed(display_grade_records(selected))

\* The state after a run of main that ended as r.
Ran(r, view, search, pick) ==
    /\ r.valid
    /\ cache' = r.memo
    /\ df' = r.df
    /\ load' = r.how
    /\ students' = r.students
    /\ filtered' = r.filtered
    /\ selected' = [view |-> view, search |-> search, pick |-> pick]
    /\ screen' = r.out
    /\ raised' = r.exc
    /\ op' = "main"
    /\ calls' = r.calls
    /\ UNCHANGED source

\* One run of the script with the widgets answering view, search and pick.
Main(view, search, pick) ==
    Ran(main(cache, source, view, search, pick), view, search, pick)

\* The parquet file is replaced by another one.
WriteFile(rows) ==
    /\ source # File(rows)
    /\ source' = File(rows)
    /\ op' = "write_file"
    /\ UNCHANGED <<cache, df, students, selected, filtered, screen, raised,
                   calls, load>>

\* The parquet file is removed or damaged.
BreakFile ==
    /\ source.ok
    /\ source' = Unreadable
    /\ op' = "break_file"
    /\ UNCHANGED <<cache, df, students, selected, filtered, screen, raised,
                   calls, load>>

RunMain == \E view \in Views, search \in SearchTerms, pick \in Picks :
    Main(view, search, pick)

\* Load cycles over a file that changes between them.
Init == \E src \in {File(t) : t \in FileTables} \cup {Unreadable} : Fresh(src, <<>>)

Next ==
    \/ RunMain
    \/ \E t \in FileTables : WriteFile(t)
    \/ BreakFile

Spec == Init /\ [][Next]_vars

\* The functions applied once to every table.
InitAgg == \E t \in AggTables : Fresh(File(t), t)

AggTransform == op = "init" /\ Transform

AggByClass == op = "init" /\ \E c \in ClassNames : ByClass(c)

AggMain == op = "init" /\ RunMain

NextAgg ==
    \/ AggTransform
    \/ AggByClass
    \/ AggMain

SpecAgg == InitAgg /\ [][NextAgg]_vars

\* The decoder applied once to every payload.
InitGrades ==
    \E p \in Payloads :
        /\ source = Unreadable
        /\ cache = EmptyCache
        /\ df = <<>>
        /\ students = <<>>
        /\ selected = p
        /\ filtered = <<>>
        /\ screen = <<>>
        /\ raised = "none"
        /\ op = "init"
        /\ calls = <<>>
        /\ load = "none"

NextGrades == DisplayGrades

SpecGrades == InitGrades /\ [][NextGrades]_vars

----------------------------------------------------------------------------
(* What the claims speak of. *)

Histories == {students[i].LichSuHoc : i \in 1..Len(students)}

\* The rows filed under a profile's name.
StudentRows(name) == {j \in 1..Len(df) : student_name(df[j]) = name}

\* (course_id, class_label, start_date, end_date) as the table holds them.
RawTuple(row) == <<row.class_id, row.TenLop, row.start_date, row.end_date>>

\* The first of a student's rows that carries the tuple of row j.
FirstCarrying(name, j) ==
    CHOOSE k \in StudentRows(name) :
        /\ RawTuple(df[k]) = RawTuple(df[j])
        /\ \A l \in StudentRows(name) :
                RawTuple(df[l]) = RawTuple(df[j]) => k <= l

SttOf(history) == {history[k].STT : k \in 1..Len(history)}

\* A name cell that holds a text of nothing but whitespace (or nothing).
BlankName(row) ==
    /\ ~row.Ten.null
    /\ \A i \in 1..Len(row.Ten.s) : row.Ten.s[i] \in Whitespace

NullName(row) == row.Ten.null

Parseable(e) == to_datetime(e.TuNgay).k = "ts"

\* A payload that is there and that json.loads rejects.
Malformed(p) == Truthy(p) /\ ~json_loads(p.s).ok

\* C1: after transform_data every history holds exactly one entry for each
\* distinct (course_id, class_label, start_date, end_date) among the student's
\* rows, built from the first row that carries the tuple.
C1_OneEntryPerTuple ==
    op = "transform_data" =>
        \A i \in 1..Len(students) :
            LET h == students[i].LichSuHoc
                firsts == {FirstCarrying(students[i].HoTen, j) :
                                j \in StudentRows(students[i].HoTen)}
            IN /\ Len(h) = Cardinality(firsts)
               /\ SttOf(h) = firsts
               /\ \A k \in 1..Len(h) :
                    /\ h[k].grades = df[h[k].STT].grades
                    /\ h[k].DaThanhToan = strip(str(df[h[k].STT].DaThanhToan))

\* C2: every history is non-ascending by parsed start date, and an entry
\* whose start date does not parse comes after every entry whose date does.
C2_SortedUnparseableLast ==
    op = "transform_data" =>
        \A h \in Histories :
            \A a \in 1..Len(h) : \A b \in 1..Len(h) :
                a < b =>
                    /\ (Parseable(h[a]) /\ Parseable(h[b]) =>
                            to_datetime(h[a].TuNgay).v >= to_datetime(h[b].TuNgay).v)
                    /\ ~(~Parseable(h[a]) /\ Parseable(h[b]))

\* The table without the rows whose name cell is blank.
WithoutBlankNames ==
    LET Named(row) == ~BlankName(row)
    IN SelectSeq(df, Named)

\* C3: a row whose student name is empty or whitespace-only creates no
\* profile and puts nothing into any history: the mapping is the one the
\* table without those rows gives, no profile is filed under a blank name
\* and no entry comes from such a row.
C3_BlankNamesSkipped ==
    op = "transform_data" =>
        /\ students = transform_data(WithoutBlankNames)
        /\ \A i \in 1..Len(students) :
            /\ students[i].HoTen # <<>>
            /\ \E c \in 1..Len(students[i].HoTen) :
                    students[i].HoTen[c] \notin Whitespace
            /\ \A j \in SttOf(students[i].LichSuHoc) : ~BlankName(df[j])

\* A table with a blank-named row and a named one was aggregated.
C3_Witness ==
    /\ op = "transform_data"
    /\ \E j \in 1..Len(df) : BlankName(df[j]) /\ df[j].Ten.s # <<>>
    /\ students # <<>>

\* The entries of a history whose class label is c, in their order.
OfClass(history, c) ==
    LET InClass(e) == e.Lop = c
    IN SelectSeq(history, InClass)

\* The profiles that have an entry of class c, in their order.
WithClass(m, c) ==
    LET Has(student) == \E k \in 1..Len(student.LichSuHoc) :
                            student.LichSuHoc[k].Lop = c
    IN SelectSeq(m, Has)

\* C4: get_students_by_class(m, c) returns a profile for exactly the
\* students that have an entry with class_label = c, and each returned
\* history is the student's entries of that class in their original order.
C4_ClassProjection ==
    op = "get_students_by_class" =>
        LET expected == WithClass(students, selected)
        IN /\ Len(filtered) = Len(expected)
           /\ \A i \in 1..Len(filtered) :
                /\ filtered[i].HoTen = expected[i].HoTen
                /\ filtered[i].DienThoai = expected[i].DienThoai
                /\ filtered[i].NgaySinh = expected[i].NgaySinh
                /\ filtered[i].GhiChu = expected[i].GhiChu
                /\ filtered[i].LichSuHoc = OfClass(expected[i].LichSuHoc, selected)
                /\ filtered[i].LichSuHoc # <<>>

\* A class was asked for that a student has an entry of, next to an entry
\* of another class.
C4_Witness ==
    /\ op = "get_students_by_class"
    /\ \E i \in 1..Len(filtered) :
            Len(filtered[i].LichSuHoc)
                < Len(students[IndexOf(students, filtered[i].HoTen)].LichSuHoc)

\* A payload that is null, empty or nothing but whitespace.
BlankPayload(p) == p.null \/ \A i \in 1..Len(p.s) : p.s[i] \in Whitespace

\* C5: decoding a null, empty or blank payload ends normally with the
\* 'no grade data' outcome: no decode error is reported, nothing is raised.
C5_BlankPayloadIsNoData ==
    (op = "display_grade_records" /\ BlankPayload(selected)) =>
        /\ raised = "none"
        /\ screen = <<Out("no_grade_data", JNull)>>

\* The table with every grades payload replaced by a well-formed one.
Regraded ==
    [j \in 1..Len(df) |-> [df[j] EXCEPT !.grades = Payload_good]]

\* The entries the run of main set out to show, in order.
RECURSIVE Concat(_)
Concat(ss) == IF ss = <<>> THEN <<>> ELSE Head(ss) \o Concat(Tail(ss))

ToShow ==
    IF selected.view = "class"
    THEN Concat([i \in 1..Len(filtered) |-> filtered[i].LichSuHoc])
    ELSE IF selected.pick.null \/ ~HasStudent(students, selected.pick.s) THEN <<>>
    ELSE students[IndexOf(students, selected.pick.s)].LichSuHoc

EnrollmentEvents == {i \in 1..Len(screen) : screen[i].w = "enrollment"}

\* C6: a malformed non-empty payload is no aggregation error: the mapping has
\* the shape it has with well-formed payloads, every entry holds its row's
\* payload verbatim; the failure is reported where the entry is shown, the
\* decoder returns, and the entries and students after it are shown.
C6_MalformedPayloadIsLocal ==
    (op = "main" /\ "transform_data" \in {calls[i] : i \in 1..Len(calls)}) =>
        /\ Len(students) = Len(transform_data(Regraded))
        /\ \A i \in 1..Len(students) :
            /\ Len(students[i].LichSuHoc)
                    = Len(transform_data(Regraded)[i].LichSuHoc)
            /\ \A k \in 1..Len(students[i].LichSuHoc) :
                /\ students[i].LichSuHoc[k].STT
                        = transform_data(Regraded)[i].LichSuHoc[k].STT
                /\ students[i].LichSuHoc[k].grades
                        = df[students[i].LichSuHoc[k].STT].grades
        /\ \A i \in EnrollmentEvents :
                Malformed(screen[i].arg.grades) =>
                    /\ i + 3 <= Len(screen)
                    /\ screen[i + 2] = Out("decode_error", JStr(screen[i].arg.grades.s))
                    /\ screen[i + 3].w = "rule"
        /\ \A i \in 1..Len(screen) :
                screen[i].w = "decode_error" =>
                    /\ i > 2
                    /\ screen[i - 2].w = "enrollment"
                    /\ Malformed(screen[i - 2].arg.grades)
        /\ \A k \in 1..Len(ToShow) :
                (\A l \in 1..k : Malformed(ToShow[l].grades)) =>
                    /\ Cardinality(EnrollmentEvents) >= k
                    /\ (k < Len(ToShow) => Cardinality(EnrollmentEvents) > k)
        /\ raised # "none" =>
                /\ EnrollmentEvents # {}
                /\ \A i \in EnrollmentEvents :
                        (\A l \in EnrollmentEvents : l <= i) =>
                            ~Malformed(screen[i].arg.grades)

\* A run of main showed an entry with a malformed payload and went on to
\* show the next entry.
C6_Witness ==
    /\ op = "main"
    /\ \E i \in EnrollmentEvents : \E l \in EnrollmentEvents :
            /\ i < l
            /\ Malformed(screen[i].arg.grades)
            /\ ~Malformed(screen[l].arg.grades)

\* C7: when load_data_with_duckdb fails in a run of main, the error is shown
\* and the run stops before transform_data: no mapping is produced, nothing
\* of one is rendered.
C7_LoadFailureStopsRun ==
    (op = "main" /\ load = "failed") =>
        /\ screen = <<Out("load_error", <<>>)>>
        /\ calls = <<"load_data_with_duckdb", "stop">>
        /\ students = <<>>
        /\ filtered = <<>>
        /\ raised = "none"

\* A run of main whose load failed.
C7_Witness == op = "main" /\ load = "failed" /\ ~source.ok

\* C8: every load cycle works on the file as it is at that cycle: the rows
\* main holds are the rows of the file, and a failure is shown only when the
\* file cannot be read.
C8_RunSeesCurrentFile ==
    op = "main" =>
        /\ source.ok => df = source.rows
        /\ ~source.ok => df = <<>>
        /\ (\E i \in 1..Len(screen) : screen[i].w = "load_error") <=> ~source.ok

\* The trimmed names of the rows that have a name.
NamesOfRows ==
    {strip(df[j].Ten.s) : j \in {k \in 1..Len(df) : ~NullName(df[k]) /\ ~BlankName(df[k])}}

\* The first row whose name, trimmed, is this one.
FirstNamed(name) ==
    CHOOSE j \in 1..Len(df) :
        /\ ~NullName(df[j]) /\ strip(df[j].Ten.s) = name
        /\ \A k \in 1..Len(df) :
                (~NullName(df[k]) /\ strip(df[k].Ten.s) = name) => j <= k

\* C9: transform_data yields exactly one profile for each distinct trimmed,
\* non-blank student name, with the trimmed phone, birth date and note of the
\* first row of that name.
C9_OneProfilePerName ==
    op = "transform_data" =>
        /\ {students[i].HoTen : i \in 1..Len(students)} = NamesOfRows
        /\ Len(students) = Cardinality(NamesOfRows)
        /\ \A i \in 1..Len(students) :
                students[i].HoTen \in NamesOfRows =>
                    LET first == df[FirstNamed(students[i].HoTen)]
                    IN /\ students[i].DienThoai = strip(str(first.DienThoai))
                       /\ students[i].NgaySinh = strip(str(first.NgaySinh))
                       /\ students[i].GhiChu = strip(str(first.GhiChu))

\* The table without the rows whose name cell is null.
WithoutNullNames ==
    LET Named(row) == ~NullName(row)
    IN SelectSeq(df, Named)

\* C10: a row whose name cell is null is skipped like a blank one: it
\* creates no profile and puts no entry into any history.
C10_NullNamesSkipped ==
    op = "transform_data" =>
        /\ students = transform_data(WithoutNullNames)
        /\ \A i \in 1..Len(students) :
                \A j \in SttOf(students[i].LichSuHoc) : ~NullName(df[j])

====
